---- MODULE Spec2Model ----
(***************************************************************************)
(* Model of the add-on compatibility report generator's version            *)
(* comparator, compareVer.  A JavaScript string is a sequence of           *)
(* one-character strings; an array of segments is a sequence of such       *)
(* sequences.  The two String.replace calls of prep, the split and the     *)
(* ~~ (ToInt32) conversion are modelled by what they do to the characters. *)
(***************************************************************************)
EXTENDS Integers, Sequences, FiniteSets, TLC

(***************************************************************************)
(* Characters                                                              *)
(***************************************************************************)
Digits == <<"0", "1", "2", "3", "4", "5", "6", "7", "8", "9">>

LowerLetters == <<"a", "b", "c", "d", "e", "f", "g", "h", "i", "j", "k", "l", "m",
                  "n", "o", "p", "q", "r", "s", "t", "u", "v", "w", "x", "y", "z">>

UpperLetters == <<"A", "B", "C", "D", "E", "F", "G", "H", "I", "J", "K", "L", "M",
                  "N", "O", "P", "Q", "R", "S", "T", "U", "V", "W", "X", "Y", "Z">>

Range(f) == {f[x] : x \in DOMAIN f}

IndexOf(seq, ch) == CHOOSE k \in DOMAIN seq : seq[k] = ch

DigitSet == Range(Digits)

LowerSet == Range(LowerLetters)

UpperSet == Range(UpperLetters)

\* [0-9]
IsDigit(ch) == ch \in DigitSet

\* the value of a decimal digit
DigitVal(ch) == IndexOf(Digits, ch) - 1

\* [^0-9\.] : the characters the first replace of prep collects into runs
IsTagChar(ch) == ~IsDigit(ch) /\ ch # "."

IsLetter(ch) == ch \in LowerSet \/ ch \in UpperSet

\* [\W_] : everything that is not an ASCII letter or digit
IsNonWord(ch) == ~IsLetter(ch) /\ ~IsDigit(ch)

\* the character left in its case
toLowerCaseOmitted(ch) == ch

\* String.prototype.toLowerCase on one ASCII character
toLowerCase(ch) ==
    IF ch \in UpperSet THEN LowerLetters[IndexOf(UpperLetters, ch)] ELSE ch

\* String.prototype.charCodeAt(0) of a one-character ASCII string
charCodeAt(ch) ==
    IF ch \in LowerSet THEN 96 + IndexOf(LowerLetters, ch)
    ELSE IF ch \in UpperSet THEN 64 + IndexOf(UpperLetters, ch)
    ELSE IF ch \in DigitSet THEN 47 + IndexOf(Digits, ch)
    ELSE CASE ch = "*" -> 42
           [] ch = "-" -> 45
           [] ch = "." -> 46
           [] ch = "_" -> 95

\* the constant prep subtracts from the character code
TagOffset == 65536

(***************************************************************************)
(* Number to string, as the "+" of a string and a number does it           *)
(***************************************************************************)
RECURSIVE NatToString(_)
NatToString(n) ==
    IF n < 10 THEN <<Digits[n + 1]>>
    ELSE Append(NatToString(n \div 10), Digits[(n % 10) + 1])

IntToString(n) == IF n < 0 THEN <<"-">> \o NatToString(-n) ELSE NatToString(n)

(***************************************************************************)
(* prep, first replace: /[^0-9\.]+/g with the callback                     *)
(***************************************************************************)
\* the end (exclusive) of the maximal run of [^0-9\.] characters that starts at i
RECURSIVE TagRunEnd(_, _)
TagRunEnd(s, i) ==
    IF i <= Len(s) /\ IsTagChar(s[i]) THEN TagRunEnd(s, i + 1) ELSE i

\* the end (exclusive) of the maximal run of [\W_] characters that starts at i
RECURSIVE NonWordRunEnd(_, _)
NonWordRunEnd(s, i) ==
    IF i <= Len(s) /\ IsNonWord(s[i]) THEN NonWordRunEnd(s, i + 1) ELSE i

\* the first position >= i of a [\W_] character, Len(s) + 1 if there is none
RECURSIVE FindNonWord(_, _)
FindNonWord(s, i) ==
    IF i > Len(s) \/ IsNonWord(s[i]) THEN i ELSE FindNonWord(s, i + 1)

\* the run left as it is
StripNothing(c) == c

\* c.replace(/[\W_]+/, "") : removes the first maximal run of non-word characters
StripFirstNonWord(c) ==
    LET p == FindNonWord(c, 1)
        q == NonWordRunEnd(c, p)
    IN  SubSeq(c, 1, p - 1) \o SubSeq(c, q, Len(c))

\* the callback without the subtraction of 65536
TagReplacementPositive(c) ==
    LET stripped == StripFirstNonWord(c)
    IN  <<".">>
        \o (IF stripped # <<>>
            THEN IntToString(charCodeAt(toLowerCase(stripped[1])))
            ELSE <<>>)
        \o <<".">>

\* the callback: "." + (stripped ? code of its first character - 65536 : "") + "."
TagReplacement(c) ==
    LET stripped == StripFirstNonWord(c)
    IN  <<".">>
        \o (IF stripped # <<>>
            THEN IntToString(charCodeAt(toLowerCase(stripped[1])) - TagOffset)
            ELSE <<>>)
        \o <<".">>

RECURSIVE ReplaceTagsFrom(_, _)
ReplaceTagsFrom(s, i) ==
    IF i > Len(s) THEN <<>>
    ELSE IF IsTagChar(s[i])
         THEN LET j == TagRunEnd(s, i)
              IN  TagReplacement(SubSeq(s, i, j - 1)) \o ReplaceTagsFrom(s, j)
         ELSE <<s[i]>> \o ReplaceTagsFrom(s, i + 1)

ReplaceTags(s) == ReplaceTagsFrom(s, 1)

(***************************************************************************)
(* prep, second replace: /(?:\.0+)*(\.-[0-9]+)(\.[0-9]+)?\.*$/g -> "$1$2"   *)
(***************************************************************************)
RECURSIVE ZeroRunEnd(_, _)
ZeroRunEnd(s, i) ==
    IF i <= Len(s) /\ s[i] = "0" THEN ZeroRunEnd(s, i + 1) ELSE i

RECURSIVE DigitRunEnd(_, _)
DigitRunEnd(s, i) ==
    IF i <= Len(s) /\ IsDigit(s[i]) THEN DigitRunEnd(s, i + 1) ELSE i

RECURSIVE DotRunEnd(_, _)
DotRunEnd(s, i) ==
    IF i <= Len(s) /\ s[i] = "." THEN DotRunEnd(s, i + 1) ELSE i

\* s[i] = ch, false past the end of s
CharIs(s, i, ch) == i <= Len(s) /\ s[i] = ch

DigitAt(s, i) == i <= Len(s) /\ IsDigit(s[i])

\* (?:\.0+)* from i: the position after the last ".0+" group
RECURSIVE SkipZeroSegments(_, _)
SkipZeroSegments(s, i) ==
    IF CharIs(s, i, ".") /\ CharIs(s, i + 1, "0")
    THEN SkipZeroSegments(s, ZeroRunEnd(s, i + 1))
    ELSE i

\* the match with the replacement "$1" in place of "$1$2"
TrimMatchAtDropNumber(s, p) ==
    LET k    == SkipZeroSegments(s, p)
        tag  == CharIs(s, k, ".") /\ CharIs(s, k + 1, "-") /\ DigitAt(s, k + 2)
        d    == DigitRunEnd(s, k + 2)
        num  == CharIs(s, d, ".") /\ DigitAt(s, d + 1)
        e    == DigitRunEnd(s, d + 1)
        with == tag /\ num /\ DotRunEnd(s, e) = Len(s) + 1
        bare == tag /\ DotRunEnd(s, d) = Len(s) + 1
    IN  [ok |-> with \/ bare,
         g1 |-> IF tag THEN SubSeq(s, k, d - 1) ELSE <<>>,
         g2 |-> <<>>]

\* the attempt to match the whole pattern from position p up to the end of s:
\* ok, and the two captured groups $1 and $2
TrimMatchAt(s, p) ==
    LET k    == SkipZeroSegments(s, p)
        tag  == CharIs(s, k, ".") /\ CharIs(s, k + 1, "-") /\ DigitAt(s, k + 2)
        d    == DigitRunEnd(s, k + 2)
        num  == CharIs(s, d, ".") /\ DigitAt(s, d + 1)
        e    == DigitRunEnd(s, d + 1)
        with == tag /\ num /\ DotRunEnd(s, e) = Len(s) + 1
        bare == tag /\ DotRunEnd(s, d) = Len(s) + 1
    IN  [ok |-> with \/ bare,
         g1 |-> IF tag THEN SubSeq(s, k, d - 1) ELSE <<>>,
         g2 |-> IF with THEN SubSeq(s, d, e - 1) ELSE <<>>]

\* the leftmost match is the one String.replace takes; the pattern ends in $ and
\* cannot match the empty string, so there is at most one replacement
TrimTrailingZeros(s) ==
    LET starts == {p \in 1..Len(s) : TrimMatchAt(s, p).ok}
    IN  IF starts = {} THEN s
        ELSE LET p == CHOOSE x \in starts : \A y \in starts : x <= y
                 m == TrimMatchAt(s, p)
             IN  SubSeq(s, 1, p - 1) \o m.g1 \o m.g2

(***************************************************************************)
(* prep, split('.')                                                        *)
(***************************************************************************)
\* the first position >= i of a ".", Len(s) + 1 if there is none
RECURSIVE FindDot(_, _)
FindDot(s, i) ==
    IF i > Len(s) \/ s[i] = "." THEN i ELSE FindDot(s, i + 1)

RECURSIVE SplitFrom(_, _)
SplitFrom(s, i) ==
    LET j == FindDot(s, i)
    IN  IF j > Len(s) THEN <<SubSeq(s, i, Len(s))>>
        ELSE <<SubSeq(s, i, j - 1)>> \o SplitFrom(s, j + 1)

Split(s) == SplitFrom(s, 1)

prep(t) == Split(TrimTrailingZeros(ReplaceTags(t)))

(***************************************************************************)
(* ~~x : ToInt32(ToNumber(x)).  The value modulo 2^32 is kept as two 16-bit *)
(* halves so that no intermediate value leaves the 32-bit range.            *)
(***************************************************************************)
HalfWord == 2 ^ 16

\* the decimal digits s[1..n] as an unsigned 32-bit value [hi, lo]
RECURSIVE DecimalMod32(_, _)
DecimalMod32(s, n) ==
    IF n = 0 THEN [hi |-> 0, lo |-> 0]
    ELSE LET acc == DecimalMod32(s, n - 1)
             lo1 == acc.lo * 10 + DigitVal(s[n])
             hi1 == acc.hi * 10 + (lo1 \div HalfWord)
         IN  [hi |-> hi1 % HalfWord, lo |-> lo1 % HalfWord]

\* two's complement negation modulo 2^32
Negate32(w) ==
    IF w.lo = 0 THEN [hi |-> (HalfWord - w.hi) % HalfWord, lo |-> 0]
    ELSE [hi |-> HalfWord - 1 - w.hi, lo |-> HalfWord - w.lo]

\* the unsigned 32-bit value read as a signed one
Signed32(w) ==
    (IF w.hi >= HalfWord \div 2 THEN w.hi - HalfWord ELSE w.hi) * HalfWord + w.lo

IsDigitString(s) == s # <<>> /\ \A k \in DOMAIN s : IsDigit(s[k])

\* ~~ of one segment: "" is 0, a decimal literal is its value modulo 2^32 read
\* as a signed number, anything else is NaN and becomes 0.  ToNumber is exact for
\* literals of up to 15 digits; no input below has a longer run of digits.
ToInt32(seg) ==
    IF IsDigitString(seg) THEN Signed32(DecimalMod32(seg, Len(seg)))
    ELSE IF Len(seg) > 1 /\ seg[1] = "-" /\ IsDigitString(Tail(seg))
         THEN Signed32(Negate32(DecimalMod32(Tail(seg), Len(seg) - 1)))
         ELSE 0

\* the read of a[i] with an index past the end taken as -1: the shorter array is lower
SegmentAtMissingLower(sa, i) == IF i + 1 <= Len(sa) THEN ToInt32(sa[i + 1]) ELSE -1

\* ~~a[i] with the 0-based index i; an index past the end reads undefined, which is 0
SegmentAt(sa, i) == IF i + 1 <= Len(sa) THEN ToInt32(sa[i + 1]) ELSE 0

(***************************************************************************)
(* compareVer                                                              *)
(***************************************************************************)
Star == <<"*">>

\* the loop bound taken as the shorter length
LoopBoundMin(sa, sb) == IF Len(sa) <= Len(sb) THEN Len(sa) ELSE Len(sb)

\* Math.max(a.length, b.length)
LoopBound(sa, sb) == IF Len(sa) >= Len(sb) THEN Len(sa) ELSE Len(sb)

\* the loop body with >= in place of >
CompareAtOrEqual(x, y) == IF x >= y THEN 1 ELSE IF x < y THEN -1 ELSE 0

\* the loop body returning the difference of the two segments
CompareAtDifference(x, y) == x - y

\* one pass of the loop body: 1 or -1 when it returns, 0 when it goes on
CompareAt(x, y) == IF x > y THEN 1 ELSE IF x < y THEN -1 ELSE 0

\* the for loop over the two segment arrays, from index i on
RECURSIVE CompareFrom(_, _, _)
CompareFrom(sa, sb, i) ==
    IF i < LoopBound(sa, sb)
    THEN LET r == CompareAt(SegmentAt(sa, i), SegmentAt(sb, i))
         IN  IF r # 0 THEN r ELSE CompareFrom(sa, sb, i + 1)
    ELSE 0

\* the comparison without the early returns: "*" normalized like any other string
WildcardResultNormalized(x, y) == CompareFrom(prep(x), prep(y), 0)

\* the three early returns for the wildcard, in the order of the code
WildcardResult(x, y) ==
    IF x # Star /\ y = Star THEN -1
    ELSE IF x = Star /\ y # Star THEN 1
    ELSE 0

compareVer(x, y) ==
    IF x = Star \/ y = Star THEN WildcardResult(x, y)
    ELSE CompareFrom(prep(x), prep(y), 0)

(***************************************************************************)
(* Inputs.  StringsUpTo(A, n) is every string of at most n characters of A. *)
(***************************************************************************)
StringsUpTo(A, n) == UNION {[1..k -> A] : k \in 0..n}

MaxLen == 3

MaxPrefixLen == 2

MaxTransLen == 2

BaseChars == {"0", "1", ".", "a"}

\* version strings that occur in the add-on data and in the reports
Examples ==
    { Star,
      <<"9", "1", ".", "0">>,
      <<"9", "1", ".", "0", "a", "1">>,
      <<"1", "0", "2", ".", "0">>,
      <<"4">>,
      <<"4", ".", "0", ".", "0">>,
      <<"1", ".", "0", ".", "0">>,
      <<"1", ".", "0", ".", "0", ".", "0">>,
      <<"1", ".", "0", ".", "0", "b", "1">>,
      <<"9", "1", ".", "0", "r", "c", "1", "0">>,
      <<"9", "1", ".", "0", "r", "c", "2">>,
      <<"9", "0">>,
      <<"2", "1", "4", "7", "4", "8", "3", "6", "4", "7">>,
      <<"2", "1", "4", "7", "4", "8", "3", "6", "4", "8">>,
      <<"4", "2", "9", "4", "9", "6", "7", "2", "9", "6">>,
      <<"2", "0", "2", "1", "0", "7", "1", "3", "1", "2", "0", "0">>,
      <<"*", "*">>,
      <<"_">>,
      <<"-">>,
      <<"1", "-">>,
      <<"1", "-", "1">>,
      <<"1", ".", "0", "-">>,
      <<"2">>,
      <<"1", "0">> }

BaseVersions == StringsUpTo(BaseChars, MaxLen) \cup Examples

\* numeric prefixes, tag runs and the digits that follow a tag
Prefixes ==
    StringsUpTo({"0", "1", "."}, MaxPrefixLen)
        \cup {<<"9", "1", ".", "0">>, <<"1", ".", "0", ".", "0">>}

TagRuns ==
    { <<"a">>, <<"b">>, <<"B">>, <<"-">>, <<"_">>, <<"*">>,
      <<"a", "b">>, <<"a", "-">>, <<"-", "a">>, <<"_", "b">>, <<"-", "_">>,
      <<"r", "c">>,
      <<"a", "l", "p", "h", "a">>, <<"b", "e", "t", "a">> }

TagSuffixes == {<<>>, <<"1">>, <<"2">>, <<"1", "0">>}

Tails == {<<>>} \cup {t \o d : t \in TagRuns, d \in TagSuffixes}

FamilyPairs == {<<p \o x, p \o y>> : p \in Prefixes, x \in Tails, y \in Tails}

InputPairs == (BaseVersions \X BaseVersions) \cup FamilyPairs

TransChars == {"0", ".", "a"}

TransVersions ==
    StringsUpTo(TransChars, MaxTransLen)
        \cup { Star, <<"1">>, <<"2">>, <<"1", "0">>, <<"1", ".", "0">>, <<"1", ".", "1">>,
               <<"0", ".", "1">>, <<"1", ".", "0", ".", "0">>,
               <<"1", "a">>, <<"1", "b">>, <<"1", "A">>, <<"1", "a", "1">>,
               <<"1", ".", "0", "a">>, <<"1", ".", "a">>,
               <<"1", "-">>, <<"1", "-", "1">>,
               <<"9", "1", ".", "0">>, <<"9", "1", ".", "0", "a", "1">>,
               <<"1", "0", "2", ".", "0">>,
               <<"2", "1", "4", "7", "4", "8", "3", "6", "4", "8">> }

(***************************************************************************)
(* State: the caller's version strings, the segment arrays a and b of the   *)
(* call compareVer(va, vb) as prep returns them, and the values returned.   *)
(***************************************************************************)
VARIABLES va, vb, vc, pc, a, b, rab, rba, rbc, rac

\* the extension record a report looks at, and the report's verdict on it
VARIABLES extJson, include

reportVars == <<extJson, include>>

\* two revisions of a policy schema, the compatibility table of the script,
\* and the values returned by the flattening (twice) and by the diff
VARIABLES file1, file2, gCompatibilityData, flat, flatAgain, changes

schemaVars == <<file1, file2, gCompatibilityData, flat, flatAgain, changes>>

cmpVars == <<va, vb, vc, a, b, rab, rba, rbc, rac>>

\* request(): the loop counter i and rv, the GET of the running attempt, GETs of
\* earlier attempts that are still outstanding, armed kill timers, the outcomes
\* of the attempts made so far, the calls made, and the value last returned
VARIABLES loopI, rv, getPending, abandoned, killTimers, outcomes, calls, returned

requestVars == <<loopI, rv, getPending, abandoned, killTimers, outcomes, calls, returned>>

\* main(): the settings of the trees to build, what hg.mozilla.org serves for
\* each tree, the position of the loop over the trees and of the loop over the
\* comm revisions, and what the run has put out so far: the builds whose README
\* and ADMX files were written, those that reported an unknown revision, and
\* those that printed the change warning
VARIABLES revisionData, hg, treeIndex, loopR, readmeBuilt, errorsReported, warned

buildVars == <<revisionData, hg, treeIndex, loopR, readmeBuilt, errorsReported, warned>>

vars ==
    <<va, vb, vc, pc, a, b, rab, rba, rbc, rac, reportVars, schemaVars, requestVars,
      buildVars>>

None == "none"

\* an extension record without xpilib.cmp_data
NoCmpData == [hasCmpData |-> FALSE, cmp_data |-> <<>>]

\* no report is being evaluated
ReportIdle == extJson = NoCmpData /\ include = None

\* a schema node: an object with an optional type and optional mappings
\* properties and patternProperties (ordered name/node pairs), or null
Obj(t, hp, p, hq, q) ==
    [kind |-> "object", type |-> t,
     hasProperties |-> hp, properties |-> p,
     hasPatternProperties |-> hq, patternProperties |-> q]

NullNode ==
    [kind |-> "null", type |-> None,
     hasProperties |-> FALSE, properties |-> <<>>,
     hasPatternProperties |-> FALSE, patternProperties |-> <<>>]

\* the value checkPolicySchemaChanges returns without a result
Undefined == [defined |-> FALSE, added |-> <<>>, removed |-> <<>>, changed |-> <<>>]

\* line 40: var gCompatibilityData = {}
EmptyCompatibilityData == <<>>

\* no schema is being looked at
SchemaIdle ==
    /\ file1 = NullNode /\ file2 = NullNode
    /\ gCompatibilityData = EmptyCompatibilityData
    /\ flat = <<>> /\ flatAgain = <<>>
    /\ changes = Undefined

\* main() has not been started
BuildIdle ==
    /\ revisionData = <<>> /\ hg = <<>>
    /\ treeIndex = 0 /\ loopR = 0
    /\ readmeBuilt = {} /\ errorsReported = {} /\ warned = {}

\* request() has not been called
RequestIdle ==
    /\ loopI = 0 /\ rv = "undefined"
    /\ getPending = FALSE /\ abandoned = 0 /\ killTimers = 0
    /\ outcomes = <<>> /\ calls = 0 /\ returned = None

\* no version is being compared
CmpIdle ==
    /\ va = <<>> /\ vb = <<>> /\ vc = <<>>
    /\ a = <<>> /\ b = <<>>
    /\ rab = None /\ rba = None /\ rbc = None /\ rac = None

InitCmp ==
    /\ \E p \in InputPairs : va = p[1] /\ vb = p[2]
    /\ vc = <<>>
    /\ pc = "call"
    /\ a = <<>>
    /\ b = <<>>
    /\ rab = None
    /\ rba = None
    /\ rbc = None
    /\ rac = None
    /\ ReportIdle
    /\ SchemaIdle
    /\ RequestIdle
    /\ BuildIdle

\* lines 784-786: one of the arguments is the wildcard; the caller asks in both orders
ReturnWildcard ==
    /\ pc = "call"
    /\ va = Star \/ vb = Star
    /\ rab' = WildcardResult(va, vb)
    /\ rba' = WildcardResult(vb, va)
    /\ pc' = "done"
    /\ UNCHANGED <<va, vb, vc, a, b, rbc, rac, reportVars, schemaVars, requestVars, buildVars>>

\* lines 788-799: both arguments are normalized and compared, in both orders
CompareSegments ==
    /\ pc = "call"
    /\ va # Star /\ vb # Star
    /\ a' = prep(va)
    /\ b' = prep(vb)
    /\ rab' = CompareFrom(a', b', 0)
    /\ rba' = CompareFrom(b', a', 0)
    /\ pc' = "done"
    /\ UNCHANGED <<va, vb, vc, rbc, rac, reportVars, schemaVars, requestVars, buildVars>>

NextCmp == ReturnWildcard \/ CompareSegments

SpecCmp == InitCmp /\ [][NextCmp]_vars

InitTrans ==
    /\ va \in TransVersions
    /\ vb \in TransVersions
    /\ vc \in TransVersions
    /\ pc = "call"
    /\ a = <<>>
    /\ b = <<>>
    /\ rab = None
    /\ rba = None
    /\ rbc = None
    /\ rac = None
    /\ ReportIdle
    /\ SchemaIdle
    /\ RequestIdle
    /\ BuildIdle

\* a caller that chains comparisons: compareVer(va, vb), (vb, vc) and (va, vc)
CompareChain ==
    /\ pc = "call"
    /\ rab' = compareVer(va, vb)
    /\ rbc' = compareVer(vb, vc)
    /\ rac' = compareVer(va, vc)
    /\ pc' = "done"
    /\ UNCHANGED <<va, vb, vc, a, b, rba, reportVars, schemaVars, requestVars, buildVars>>

NextTrans == CompareChain

SpecTrans == InitTrans /\ [][NextTrans]_vars

(***************************************************************************)
(* Shapes of version strings used to state the properties                   *)
(***************************************************************************)
\* made only of digits and dots
IsNumeric(s) == \A k \in DOMAIN s : IsDigit(s[k]) \/ s[k] = "."

IsPrefix(p, s) == Len(p) <= Len(s) /\ SubSeq(s, 1, Len(p)) = p

\* what is left of s after its prefix p
Rest(s, p) == SubSeq(s, Len(p) + 1, Len(s))

\* a non-empty run of characters that are neither digits nor dots
IsTagRun(r) == r # <<>> /\ \A k \in DOMAIN r : IsTagChar(r[k])

HasLetter(r) == \E k \in DOMAIN r : IsLetter(r[k])

FirstLetter(r) == r[CHOOSE k \in DOMAIN r : IsLetter(r[k]) /\ \A j \in 1..(k - 1) : ~IsLetter(r[j])]

\* a letter followed by digits only
IsLetterThenDigits(t) ==
    /\ t # <<>>
    /\ IsLetter(t[1])
    /\ \A k \in 2..Len(t) : IsDigit(t[k])

V91_0 == <<"9", "1", ".", "0">>

V91_0a1 == <<"9", "1", ".", "0", "a", "1">>

(***************************************************************************)
(* C1: the wildcard "*" is greater than every other string and equal to     *)
(* itself: compareVer(v, "*") = -1 and compareVer("*", v) = 1 for every v    *)
(* other than "*", compareVer("*", "*") = 0, and the call returns before v   *)
(* is normalized (the arrays a and b are never built).                       *)
(***************************************************************************)
WildcardOrder ==
    (pc = "done" /\ (va = Star \/ vb = Star)) =>
        /\ (va # Star => rab = -1 /\ rba = 1)
        /\ (vb # Star => rab = 1 /\ rba = -1)
        /\ (va = Star /\ vb = Star => rab = 0 /\ rba = 0)
        /\ a = <<>> /\ b = <<>>

\* the empty string has been compared with the wildcard
WildcardOrderWitness ==
    pc = "done" /\ va = <<>> /\ vb = Star /\ rab = -1 /\ rba = 1

(***************************************************************************)
(* C2: compareVer is transitive: whenever compareVer(va, vb) <= 0 and       *)
(* compareVer(vb, vc) <= 0, then compareVer(va, vc) <= 0, for wildcard,      *)
(* numeric, tagged, empty and malformed strings alike.                       *)
(***************************************************************************)
Transitive ==
    pc = "done" => ((rab <= 0 /\ rbc <= 0) => rac <= 0)

\* a chain through a tagged version, a release and the same release padded
TransitiveWitness ==
    /\ pc = "done"
    /\ va = <<"1", "a">> /\ vb = <<"1">> /\ vc = <<"1", ".", "0">>
    /\ rab = -1 /\ rbc = 0 /\ rac = -1

(***************************************************************************)
(* C3: compareVer is antisymmetric: compareVer(va, vb) = -compareVer(vb, va) *)
(* for all strings, and so compareVer(v, v) = 0.                             *)
(***************************************************************************)
Antisymmetric ==
    pc = "done" =>
        /\ rab = -rba
        /\ (va = vb => rab = 0)

\* a tagged version against its release, asked in both orders
AntisymmetricWitness ==
    pc = "done" /\ va = V91_0 /\ vb = V91_0a1 /\ rab = 1 /\ rba = -1

(***************************************************************************)
(* C4: a version with an alphabetic pre-release tag sorts before the plain  *)
(* release: for numeric v (digits and dots) and a suffix t made of a letter  *)
(* followed by digits, compareVer(v + t, v) = -1 and compareVer(v, v + t)    *)
(* = 1.                                                                      *)
(***************************************************************************)
PreReleaseBeforeRelease ==
    (/\ pc = "done"
     /\ IsNumeric(vb)
     /\ IsPrefix(vb, va)
     /\ IsLetterThenDigits(Rest(va, vb))) =>
        rab = -1 /\ rba = 1

\* compareVer("91.0a1", "91.0") has returned -1
PreReleaseWitness ==
    pc = "done" /\ va = V91_0a1 /\ vb = V91_0 /\ rab = -1 /\ rba = 1

(***************************************************************************)
(* Reference order of numeric versions: the segments between the dots read  *)
(* as natural numbers of any size (an empty segment is 0), the shorter       *)
(* sequence padded with 0, the first unequal position deciding.              *)
(***************************************************************************)
RECURSIVE StripLeadingZeros(_)
StripLeadingZeros(s) ==
    IF s # <<>> /\ s[1] = "0" THEN StripLeadingZeros(Tail(s)) ELSE s

\* two digit strings of the same length, without leading zeros, from position i
RECURSIVE DigitsCompareFrom(_, _, _)
DigitsCompareFrom(x, y, i) ==
    IF i > Len(x) THEN 0
    ELSE IF DigitVal(x[i]) > DigitVal(y[i]) THEN 1
    ELSE IF DigitVal(x[i]) < DigitVal(y[i]) THEN -1
    ELSE DigitsCompareFrom(x, y, i + 1)

NaturalCompare(s, t) ==
    LET x == StripLeadingZeros(s)
        y == StripLeadingZeros(t)
    IN  IF Len(x) > Len(y) THEN 1
        ELSE IF Len(x) < Len(y) THEN -1
        ELSE DigitsCompareFrom(x, y, 1)

SegmentOrEmpty(segs, i) == IF i <= Len(segs) THEN segs[i] ELSE <<>>

RECURSIVE NumericOrderFrom(_, _, _)
NumericOrderFrom(sa, sb, i) ==
    IF i > Len(sa) /\ i > Len(sb) THEN 0
    ELSE LET r == NaturalCompare(SegmentOrEmpty(sa, i), SegmentOrEmpty(sb, i))
         IN  IF r # 0 THEN r ELSE NumericOrderFrom(sa, sb, i + 1)

NumericOrder(s, t) == NumericOrderFrom(Split(s), Split(t), 1)

(***************************************************************************)
(* C5: for versions made only of digits and dots, compareVer is the         *)
(* lexicographic order of the integer segments, padded with 0, for every     *)
(* segment value: the larger integer wins at the first unequal position.     *)
(***************************************************************************)
NumericSegmentsOrdered ==
    (pc = "done" /\ IsNumeric(va) /\ IsNumeric(vb)) =>
        rab = NumericOrder(va, vb)

(***************************************************************************)
(* C6: trailing zero segments are insignificant for numeric versions:       *)
(* compareVer(v, v + ".0") = 0 for every v of digits and dots, while the     *)
(* tagged "1.0.0b1" does not compare equal to "1.0.0".                       *)
(***************************************************************************)
TrailingZeroInsignificant ==
    pc = "done" =>
        /\ (IsNumeric(va) /\ vb = va \o <<".", "0">> => rab = 0 /\ rba = 0)
        /\ (va = <<"1", ".", "0", ".", "0", "b", "1">> /\ vb = <<"1", ".", "0", ".", "0">>
                => rab # 0)

\* compareVer("1.0.0", "1.0.0.0") has returned 0
TrailingZeroWitness ==
    /\ pc = "done"
    /\ va = <<"1", ".", "0", ".", "0">>
    /\ vb = <<"1", ".", "0", ".", "0", ".", "0">>
    /\ rab = 0

(***************************************************************************)
(* C7: compareVer is total: for every pair of strings, the empty string,    *)
(* strings of dots and strings of symbols included, it returns -1, 0 or 1;   *)
(* an empty segment counts as 0, so compareVer("", "0") = 0.                 *)
(***************************************************************************)
TotalResult ==
    /\ pc \in {"call", "done"}
    /\ pc = "done" =>
        /\ rab \in {-1, 0, 1}
        /\ rba \in {-1, 0, 1}
        /\ (va = <<>> /\ vb = <<"0">> => rab = 0)

\* compareVer("", "0") has returned 0
TotalResultWitness ==
    pc = "done" /\ va = <<>> /\ vb = <<"0">> /\ rab = 0 /\ a = <<<<>>>>

(***************************************************************************)
(* The parts of a tagged version: its numeric prefix, its first run of      *)
(* characters that are neither digits nor dots, and what follows that run.   *)
(***************************************************************************)
\* the first position >= i of a [^0-9\.] character, Len(s) + 1 if there is none
RECURSIVE FindTagChar(_, _)
FindTagChar(s, i) ==
    IF i > Len(s) \/ IsTagChar(s[i]) THEN i ELSE FindTagChar(s, i + 1)

NumericPrefix(s) == SubSeq(s, 1, FindTagChar(s, 1) - 1)

FirstTag(s) == SubSeq(s, FindTagChar(s, 1), TagRunEnd(s, FindTagChar(s, 1)) - 1)

AfterFirstTag(s) == SubSeq(s, TagRunEnd(s, FindTagChar(s, 1)), Len(s))

\* numeric prefix, one tag run, then digits only (possibly none)
IsTaggedWithDigits(s) ==
    /\ FirstTag(s) # <<>>
    /\ \A k \in DOMAIN AfterFirstTag(s) : IsDigit(AfterFirstTag(s)[k])

\* the first position of a letter in s, Len(s) + 1 if there is none
RECURSIVE FindLetter(_, _)
FindLetter(s, i) ==
    IF i > Len(s) \/ IsLetter(s[i]) THEN i ELSE FindLetter(s, i + 1)

BeforeFirstLetter(s) == SubSeq(s, 1, FindLetter(s, 1) - 1)

\* what follows the tag run that holds the first letter of s
AfterLetterRun(s) == SubSeq(s, TagRunEnd(s, FindLetter(s, 1)), Len(s))

\* the place of a letter in the alphabet, whatever its case
LetterRank(ch) ==
    IF ch \in LowerSet THEN IndexOf(LowerLetters, ch) ELSE IndexOf(UpperLetters, ch)

\* the character code of the lower-case form of the first letter of s ("a" is 97)
LetterCode(s) == 96 + LetterRank(FirstLetter(s))

TagDigitsIgnored ==
    (/\ pc = "done"
     /\ IsTaggedWithDigits(va) /\ IsTaggedWithDigits(vb)
     /\ NumericPrefix(va) = NumericPrefix(vb)
     /\ FirstTag(va) = FirstTag(vb)
     /\ HasLetter(FirstTag(va))) =>
        rab = 0

(***************************************************************************)
(* C9 amended: the digits after the tag are a segment of their own and are  *)
(* compared like any numeric segment: with the same numeric prefix and the   *)
(* same tag, the result is that of comparing the two digit strings, so       *)
(* compareVer("91.0rc10", "91.0rc2") = 1.                                    *)
(***************************************************************************)
TagDigitsCompared ==
    (/\ pc = "done"
     /\ va # Star /\ vb # Star
     /\ IsTaggedWithDigits(va) /\ IsTaggedWithDigits(vb)
     /\ NumericPrefix(va) = NumericPrefix(vb)
     /\ FirstTag(va) = FirstTag(vb)) =>
        rab = compareVer(AfterFirstTag(va), AfterFirstTag(vb))

\* compareVer("91.0rc10", "91.0rc2") has returned 1
TagDigitsWitness ==
    /\ pc = "done"
    /\ va = <<"9", "1", ".", "0", "r", "c", "1", "0">>
    /\ vb = <<"9", "1", ".", "0", "r", "c", "2">>
    /\ rab = 1

(***************************************************************************)
(* C10: of a tag run only its first letter, lower-cased, counts: two        *)
(* versions that agree before the first letter and after its run compare     *)
(* equal when the two first letters are the same up to case, and are         *)
(* ordered by the lower-cased letter otherwise.                              *)
(***************************************************************************)
FirstLetterDecides ==
    (/\ pc = "done"
     /\ HasLetter(va) /\ HasLetter(vb)
     /\ BeforeFirstLetter(va) = BeforeFirstLetter(vb)
     /\ AfterLetterRun(va) = AfterLetterRun(vb)) =>
        /\ LetterCode(va) = LetterCode(vb) => rab = 0
        /\ LetterCode(va) < LetterCode(vb) => rab = -1
        /\ LetterCode(va) > LetterCode(vb) => rab = 1

\* compareVer("91.0alpha1", "91.0a1") has returned 0
FirstLetterWitness ==
    /\ pc = "done"
    /\ va = <<"9", "1", ".", "0", "a", "l", "p", "h", "a", "1">>
    /\ vb = V91_0a1
    /\ rab = 0

(***************************************************************************)
(* The wrong-order report.  cmp_data maps a release channel to the version  *)
(* of the extension that is compatible with it; a channel without a key      *)
(* reads undefined.                                                          *)
(***************************************************************************)
\* the release channels, oldest first
Channels == <<"60", "68", "78", "91", "102">>

ChannelSet == Range(Channels)

\* versions an extension may carry for a channel; "" is a string but not a version
ChannelVersions ==
    { <<>>, <<"1">>, <<"2">>, <<"1", ".", "0">>, <<"1", "a">>, Star }

\* every cmp_data object: any subset of the channels, each with a version
CmpDataObjects ==
    UNION {[present -> ChannelVersions] : present \in SUBSET ChannelSet}

Extensions ==
    {NoCmpData} \cup {[hasCmpData |-> TRUE, cmp_data |-> c] : c \in CmpDataObjects}

\* getExtData(extJson, esr).version: cmp_data ? cmp_data[esr] : null
getExtDataVersion(ext, esr) ==
    IF ext.hasCmpData /\ esr \in DOMAIN ext.cmp_data
    THEN [defined |-> TRUE, value |-> ext.cmp_data[esr]]
    ELSE [defined |-> FALSE, value |-> <<>>]

\* the truth value of a version in "v60 && v68 && ...": null, undefined and "" are false
Truthy(v) == v.defined /\ v.value # <<>>

\* only neighbouring channels compared
WrongOrderPairsAdjacent == <<<<1, 2>>, <<2, 3>>, <<3, 4>>, <<4, 5>>>>

\* the pairs of channels of lines 261-273, in the order of the code
WrongOrderPairs ==
    << <<1, 2>>, <<1, 3>>, <<1, 4>>, <<1, 5>>,
       <<2, 3>>, <<2, 4>>, <<2, 5>>,
       <<3, 4>>, <<3, 5>>,
       <<4, 5>> >>

\* one line of the report: v_i && v_j && compareVer(v_i, v_j) > 0
WrongOrderLine(ext, p) ==
    LET vi == getExtDataVersion(ext, Channels[p[1]])
        vj == getExtDataVersion(ext, Channels[p[2]])
    IN  Truthy(vi) /\ Truthy(vj) /\ compareVer(vi.value, vj.value) > 0

\* rowData: the first line that holds returns include: true, else include: false
WrongOrderRowData(ext) ==
    \E k \in DOMAIN WrongOrderPairs : WrongOrderLine(ext, WrongOrderPairs[k])

InitReport ==
    /\ extJson \in Extensions
    /\ include = None
    /\ pc = "call"
    /\ CmpIdle
    /\ SchemaIdle
    /\ RequestIdle
    /\ BuildIdle

\* lines 254-275: the report evaluates one extension
WrongOrderReport ==
    /\ pc = "call"
    /\ include' = WrongOrderRowData(extJson)
    /\ pc' = "done"
    /\ UNCHANGED <<cmpVars, extJson, schemaVars, requestVars, buildVars>>

NextReport == WrongOrderReport

SpecReport == InitReport /\ [][NextReport]_vars

\* the extension has a version for the channel
HasVersion(ext, esr) == Truthy(getExtDataVersion(ext, esr))

(***************************************************************************)
(* C11: the wrong-order report includes an extension exactly when there are *)
(* two channels i < j among 60, 68, 78, 91, 102 for which the extension has  *)
(* a version in both and compareVer(version_i, version_j) > 0; a channel     *)
(* without a version never leads to inclusion.                               *)
(***************************************************************************)
WrongOrderExact ==
    pc = "done" =>
        (include <=>
            \E i \in 1..5 : \E j \in (i + 1)..5 :
                /\ HasVersion(extJson, Channels[i])
                /\ HasVersion(extJson, Channels[j])
                /\ compareVer(extJson.cmp_data[Channels[i]],
                              extJson.cmp_data[Channels[j]]) > 0)

\* included for channels 78 and 102 alone, with channel 91 missing
WrongOrderWitness ==
    /\ pc = "done"
    /\ extJson.hasCmpData
    /\ DOMAIN extJson.cmp_data = {"60", "78", "102"}
    /\ extJson.cmp_data["60"] = <<"1", "a">>
    /\ extJson.cmp_data["78"] = <<"2">>
    /\ extJson.cmp_data["102"] = <<"1", ".", "0">>
    /\ include = TRUE

(***************************************************************************)
(* Policy schemas: flattening and diffing                                   *)
(* (update_policy_templates.js, lines 331-363).                             *)
(***************************************************************************)
\* the entries of data[key], in mapping order; a missing mapping has none
EntriesOf(data, key) ==
    IF key = "properties"
    THEN (IF data.hasProperties THEN data.properties ELSE <<>>)
    ELSE (IF data.hasPatternProperties THEN data.patternProperties ELSE <<>>)

\* the names of a subtree without the name of the child above them
PrefixUnprefixed(name, subs) == subs

\* line 338: subs.map(e => `${name}_${e}`)
Prefix(name, subs) == [i \in 1..Len(subs) |-> name \o <<"_">> \o subs[i]]

\* patternProperties looked at before properties
SchemaKeysPatternFirst == <<"patternProperties", "properties">>

\* line 333: the keys the flattening looks at, in this order
SchemaKeys == <<"properties", "patternProperties">>

RECURSIVE extractFlatPolicyNamesFromPolicySchema(_)
RECURSIVE FlattenEntries(_, _)

\* lines 335-339: the loop over Object.entries(data[key]) from entry k on
FlattenEntries(entries, k) ==
    IF k > Len(entries)
    THEN <<>>
    ELSE LET name == entries[k][1]
             subs == extractFlatPolicyNamesFromPolicySchema(entries[k][2])
         IN  <<name>> \o Prefix(name, subs) \o FlattenEntries(entries, k + 1)

\* lines 331-343
extractFlatPolicyNamesFromPolicySchema(data) ==
    FlattenEntries(EntriesOf(data, SchemaKeys[1]), 1)
        \o FlattenEntries(EntriesOf(data, SchemaKeys[2]), 1)

\* obj[e]: the value of key e in a mapping, undefined when there is none
RECURSIVE GetFrom(_, _, _)
GetFrom(entries, e, k) ==
    IF k > Len(entries)
    THEN [defined |-> FALSE, node |-> NullNode]
    ELSE IF entries[k][1] = e
         THEN [defined |-> TRUE, node |-> entries[k][2]]
         ELSE GetFrom(entries, e, k + 1)

Get(entries, e) == GetFrom(entries, e, 1)

\* JSON.stringify of a schema node, as a sequence of characters and tokens
RECURSIVE StringifyNode(_)
RECURSIVE StringifyEntries(_, _)

StringifyEntries(entries, k) ==
    IF k > Len(entries)
    THEN <<>>
    ELSE (IF k > 1 THEN <<",">> ELSE <<>>)
             \o <<"\"">> \o entries[k][1] \o <<"\"", ":">>
             \o StringifyNode(entries[k][2])
             \o StringifyEntries(entries, k + 1)

StringifyNode(n) ==
    IF n.kind = "null"
    THEN <<"null">>
    ELSE LET t == IF n.type = None THEN <<>> ELSE << <<"\"type\"", ":", n.type>> >>
             p == IF n.hasProperties
                  THEN << <<"\"properties\"", ":", "{">>
                              \o StringifyEntries(n.properties, 1) \o <<"}">> >>
                  ELSE <<>>
             q == IF n.hasPatternProperties
                  THEN << <<"\"patternProperties\"", ":", "{">>
                              \o StringifyEntries(n.patternProperties, 1) \o <<"}">> >>
                  ELSE <<>>
             members == t \o p \o q
             Join[i \in 0..Len(members)] ==
                 IF i = 0 THEN <<>>
                 ELSE Join[i - 1] \o (IF i > 1 THEN <<",">> ELSE <<>>) \o members[i]
         IN  <<"{">> \o Join[Len(members)] \o <<"}">>

\* JSON.stringify(v): undefined for an undefined value, else the text
JSONstringify(v) ==
    IF v.defined
    THEN [defined |-> TRUE, text |-> StringifyNode(v.node)]
    ELSE [defined |-> FALSE, text |-> <<>>]

\* x != y for two results of JSON.stringify: undefined equals undefined
NotEqual(x, y) == x.defined # y.defined \/ (x.defined /\ x.text # y.text)

\* only the first element looked at
IncludesFirst(keys, e) == Len(keys) > 0 /\ keys[1] = e

\* keys.includes(e)
Includes(keys, e) == \E i \in 1..Len(keys) : keys[i] = e

\* a file with patternProperties taken for one with properties
LacksAnyMapping(file) ==
    file.kind = "null" \/ (~file.hasProperties /\ ~file.hasPatternProperties)

\* !file?.properties: a null file and a file without properties
LacksProperties(file) == file.kind = "null" \/ ~file.hasProperties

\* the test of line 360 without keys1.includes(e)
ChangedFilterDifferOnly(keys1, f1, f2, e) ==
    NotEqual(JSONstringify(Get(f2.properties, e)),
             JSONstringify(Get(f1.properties, e)))

\* line 360: the test that selects the changed names among keys2
ChangedFilter(keys1, f1, f2, e) ==
    /\ Includes(keys1, e)
    /\ NotEqual(JSONstringify(Get(f2.properties, e)),
                JSONstringify(Get(f1.properties, e)))

\* lines 350-363
checkPolicySchemaChanges(f1, f2) ==
    IF LacksProperties(f1) \/ LacksProperties(f2)
    THEN Undefined
    ELSE LET keys1 == extractFlatPolicyNamesFromPolicySchema(f1)
             keys2 == extractFlatPolicyNamesFromPolicySchema(f2)
             added == SelectSeq(keys2, LAMBDA e : ~Includes(keys1, e))
             removed == SelectSeq(keys1, LAMBDA e : ~Includes(keys2, e))
             changed == SelectSeq(keys2, LAMBDA e : ChangedFilter(keys1, f1, f2, e))
         IN  [defined |-> TRUE, added |-> added, removed |-> removed,
              changed |-> changed]

(***************************************************************************)
(* The schemas the two functions are applied to.                            *)
(***************************************************************************)
NameA == <<"a">>
NameB == <<"b">>
NameC == <<"c">>
NameAB == <<"a", "_", "b">>
NameX == <<"x">>
NameY == <<"y">>

Leaf(t) == Obj(t, FALSE, <<>>, FALSE, <<>>)

WithProperties(p) == Obj(None, TRUE, p, FALSE, <<>>)

WithPatternProperties(q) == Obj(None, FALSE, <<>>, TRUE, q)

WithBoth(p, q) == Obj(None, TRUE, p, TRUE, q)

TypedLeaves == {Leaf("string"), Leaf("boolean")}

Leaves == TypedLeaves \cup {Leaf(None)}

\* nodes with children of their own
InnerNodes ==
    {WithProperties(<< <<NameB, l>> >>) : l \in Leaves}
        \cup { WithProperties(<<>>),
               WithPatternProperties(<< <<NameB, Leaf("string")>> >>),
               WithBoth(<< <<NameB, Leaf("string")>> >>, << <<NameC, Leaf("string")>> >>),
               WithProperties(<< <<NameB, Leaf("string")>>, <<NameC, Leaf("string")>> >>),
               WithProperties(<< <<NameC, Leaf("string")>>, <<NameB, Leaf("string")>> >>) }

PolicyNodes == Leaves \cup InnerNodes

\* top-level properties with at most one policy
NarrowProperties == {<<>>} \cup {<< <<NameA, m>> >> : m \in PolicyNodes}

\* top-level properties; the last family has a policy named like a nested one
TopProperties ==
    NarrowProperties
        \cup {<< <<NameA, m>>, <<NameB, l>> >> : m \in PolicyNodes, l \in TypedLeaves}
        \cup {<< <<NameB, Leaf("string")>>, <<NameA, m>> >> : m \in PolicyNodes}
        \cup {<< <<NameA, WithProperties(<< <<NameB, l>> >>)>>, <<NameAB, k>> >> :
                  l \in TypedLeaves, k \in TypedLeaves}

TopPatternProperties ==
    {<< <<NameC, l>> >> : l \in TypedLeaves}
        \cup {<< <<NameB, Leaf("string")>> >>}
        \cup {<< <<NameC, WithProperties(<< <<NameB, l>> >>)>> >> : l \in TypedLeaves}

\* {properties: {x: {type: "string"}}}
SchemaX == WithProperties(<< <<NameX, Leaf("string")>> >>)

\* {properties: {x: {type: "string"}, y: {type: "boolean"}}}
SchemaXY == WithProperties(<< <<NameX, Leaf("string")>>, <<NameY, Leaf("boolean")>> >>)

\* every schema revision a caller may pass, null included
Schemas ==
    {NullNode, Leaf(None), SchemaX, SchemaXY}
        \cup {WithPatternProperties(q) : q \in TopPatternProperties}
        \cup {WithProperties(p) : p \in TopProperties}
        \cup {WithBoth(p, q) : p \in NarrowProperties, q \in TopPatternProperties}

\* the compatibility table: empty, or with an entry written by an earlier step
CompatibilityTables ==
    { EmptyCompatibilityData,
      [policy \in {NameA} |-> [tree \in {"central"} |-> <<"9", "1", ".", "0">>]] }

InitSchema ==
    /\ file1 \in Schemas
    /\ file2 \in Schemas
    /\ gCompatibilityData \in CompatibilityTables
    /\ flat = <<>> /\ flatAgain = <<>>
    /\ changes = Undefined
    /\ pc = "call"
    /\ CmpIdle
    /\ ReportIdle
    /\ RequestIdle
    /\ BuildIdle

\* a flattening that empties the schema it was given
ExtractFlatConsuming ==
    /\ pc = "call"
    /\ file2.kind = "object"
    /\ flat' = extractFlatPolicyNamesFromPolicySchema(file2)
    /\ file2' = Leaf(None)
    /\ pc' = "flat"
    /\ UNCHANGED <<cmpVars, reportVars, requestVars, buildVars, file1, gCompatibilityData, flatAgain, changes>>

\* lines 331-343: a call of the flattening on the newer revision
ExtractFlat ==
    /\ pc = "call"
    /\ file2.kind = "object"
    /\ flat' = extractFlatPolicyNamesFromPolicySchema(file2)
    /\ file2' = file2
    /\ pc' = "flat"
    /\ UNCHANGED <<cmpVars, reportVars, requestVars, buildVars, file1, gCompatibilityData, flatAgain, changes>>

\* lines 331-343: a second call on the same revision
ExtractAgain ==
    /\ pc = "flat"
    /\ flatAgain' = extractFlatPolicyNamesFromPolicySchema(file2)
    /\ pc' = "again"
    /\ UNCHANGED <<cmpVars, reportVars, requestVars, buildVars, file1, file2, gCompatibilityData, flat, changes>>

\* lines 350-363: a call of the diff on two revisions
CheckChanges ==
    /\ pc = "call"
    /\ changes' = checkPolicySchemaChanges(file1, file2)
    /\ pc' = "done"
    /\ UNCHANGED <<cmpVars, reportVars, requestVars, buildVars, file1, file2, gCompatibilityData, flat, flatAgain>>

NextSchema == ExtractFlat \/ ExtractAgain \/ CheckChanges

SpecSchema == InitSchema /\ [][NextSchema]_vars

(***************************************************************************)
(* The schema tree read top-down: the children of a node, the paths to all  *)
(* nodes below it in pre-order, and the flat name of a path.                 *)
(***************************************************************************)
ChildrenOf(node) ==
    EntriesOf(node, "properties") \o EntriesOf(node, "patternProperties")

RECURSIVE PathsFrom(_, _, _)
PathsFrom(children, k, path) ==
    IF k > Len(children)
    THEN <<>>
    ELSE LET here == Append(path, children[k][1])
         IN  <<here>> \o PathsFrom(ChildrenOf(children[k][2]), 1, here)
                 \o PathsFrom(children, k + 1, path)

PreOrderPaths(root) == PathsFrom(ChildrenOf(root), 1, <<>>)

RECURSIVE JoinPath(_)
JoinPath(path) ==
    IF Len(path) = 1
    THEN path[1]
    ELSE path[1] \o <<"_">> \o JoinPath(Tail(path))

RECURSIVE CountBelow(_, _)
CountBelow(children, k) ==
    IF k > Len(children)
    THEN 0
    ELSE 1 + CountBelow(ChildrenOf(children[k][2]), 1) + CountBelow(children, k + 1)

\* the number of nodes of the tree without its root
NonRootNodes(root) == CountBelow(ChildrenOf(root), 1)

\* {properties: {a: {properties: {b: {}}}}}
SchemaANestedB ==
    WithProperties(<< <<NameA, WithProperties(<< <<NameB, Leaf(None)>> >>)>> >>)

(***************************************************************************)
(* C12: extractFlatPolicyNamesFromPolicySchema emits the names in pre-order: *)
(* each child's own name, immediately followed by the names of its subtree   *)
(* prefixed with "<childName>_", children of properties before children of   *)
(* patternProperties, exactly one name per non-root node.                    *)
(***************************************************************************)
FlattenPreOrder ==
    pc = "flat" =>
        LET paths == PreOrderPaths(file2)
        IN  /\ Len(flat) = NonRootNodes(file2)
            /\ flat = [i \in 1..Len(paths) |-> JoinPath(paths[i])]

\* {properties: {a: {properties: {b: {}}}}} yields ["a", "a_b"]
FlattenWitness ==
    /\ pc = "flat"
    /\ file2 = SchemaANestedB
    /\ flat = <<NameA, NameAB>>

\* no flat name occurs twice
NoDuplicates(keys) ==
    \A i \in 1..Len(keys) : \A j \in 1..Len(keys) : keys[i] = keys[j] => i = j

\* the node a flat name stands for: the node at the first path with that name
NodeAt(root, e) ==
    LET paths == PreOrderPaths(root)
        first == CHOOSE i \in 1..Len(paths) :
                     /\ JoinPath(paths[i]) = e
                     /\ \A j \in 1..(i - 1) : JoinPath(paths[j]) # e
        Walk[k \in 0..Len(paths[first])] ==
            IF k = 0 THEN root
            ELSE Get(ChildrenOf(Walk[k - 1]), paths[first][k]).node
    IN  Walk[Len(paths[first])]

\* the flat names of both revisions whose nodes serialize differently
DifferingNames(f1, f2) ==
    {e \in Range(extractFlatPolicyNamesFromPolicySchema(f1))
               \cap Range(extractFlatPolicyNamesFromPolicySchema(f2)) :
        StringifyNode(NodeAt(f1, e)) # StringifyNode(NodeAt(f2, e))}

\* both revisions have properties and no flat name occurs twice in either
Comparable(f1, f2) ==
    /\ ~LacksProperties(f1) /\ ~LacksProperties(f2)
    /\ NoDuplicates(extractFlatPolicyNamesFromPolicySchema(f1))
    /\ NoDuplicates(extractFlatPolicyNamesFromPolicySchema(f2))

(***************************************************************************)
(* C13: in the result of checkPolicySchemaChanges(old, new), changed is      *)
(* exactly the set of flat names present in both flattenings whose schema    *)
(* sub-node differs between old and new, at every nesting depth and for      *)
(* names coming from patternProperties as well.                              *)
(***************************************************************************)
ChangedExact ==
    (pc = "done" /\ Comparable(file1, file2)) =>
        Range(changes.changed) = DifferingNames(file1, file2)

\* the flat names of a schema, read off its paths
FlatNames(root) ==
    LET paths == PreOrderPaths(root)
    IN  [i \in 1..Len(paths) |-> JoinPath(paths[i])]

\* a result was returned
Returned == pc = "done" /\ changes.defined

(***************************************************************************)
(* C14: in the result of checkPolicySchemaChanges(old, new), added is        *)
(* exactly the flat names of new that are not flat names of old, removed is  *)
(* exactly the flat names of old that are not flat names of new; for         *)
(* old = {properties: {x: string}} and new = {properties: {x: string,        *)
(* y: boolean}} the result is added = ["y"], removed = [], changed = [].     *)
(***************************************************************************)
AddedRemovedExact ==
    Returned =>
        /\ Range(changes.added)
               = Range(FlatNames(file2)) \ Range(FlatNames(file1))
        /\ Range(changes.removed)
               = Range(FlatNames(file1)) \ Range(FlatNames(file2))
        /\ (file1 = SchemaX /\ file2 = SchemaXY) =>
               /\ changes.added = <<NameY>>
               /\ changes.removed = <<>>
               /\ changes.changed = <<>>

AddedRemovedWitness ==
    /\ Returned
    /\ file1 = SchemaX /\ file2 = SchemaXY
    /\ changes.added = <<NameY>>

(***************************************************************************)
(* C15: checkPolicySchemaChanges returns undefined whenever the old or the   *)
(* new node has no properties key (a node with only patternProperties and a  *)
(* null node included); whenever both have properties it returns an object   *)
(* with the lists added, removed and changed.                                *)
(***************************************************************************)
UndefinedWithoutProperties ==
    pc = "done" =>
        IF \/ file1.kind = "null" \/ ~file1.hasProperties
           \/ file2.kind = "null" \/ ~file2.hasProperties
        THEN changes = Undefined
        ELSE changes.defined

\* the old revision has only patternProperties, the new one has properties
UndefinedWitness ==
    /\ pc = "done"
    /\ file1.kind = "object" /\ ~file1.hasProperties /\ file1.hasPatternProperties
    /\ file2.kind = "object" /\ file2.hasProperties
    /\ changes = Undefined

(***************************************************************************)
(* C16: whenever checkPolicySchemaChanges returns a result, the lists added, *)
(* removed and changed are pairwise disjoint.                                *)
(***************************************************************************)
ListsDisjoint ==
    Returned =>
        /\ Range(changes.added) \cap Range(changes.removed) = {}
        /\ Range(changes.added) \cap Range(changes.changed) = {}
        /\ Range(changes.removed) \cap Range(changes.changed) = {}

\* a result with names in all three lists
ListsDisjointWitness ==
    /\ Returned
    /\ changes.added # <<>>
    /\ changes.removed # <<>>
    /\ changes.changed # <<>>

\* s is t with some elements left out
RECURSIVE IsSubsequence(_, _)
IsSubsequence(s, t) ==
    IF s = <<>> THEN TRUE
    ELSE IF t = <<>> THEN FALSE
    ELSE IF Head(s) = Head(t) THEN IsSubsequence(Tail(s), Tail(t))
    ELSE IsSubsequence(s, Tail(t))

(***************************************************************************)
(* C17: the output lists of checkPolicySchemaChanges keep traversal order    *)
(* and are not sorted: added and changed are subsequences of the flattening  *)
(* of the new schema, removed is a subsequence of the flattening of the old. *)
(***************************************************************************)
TraversalOrderKept ==
    Returned =>
        /\ IsSubsequence(changes.added, FlatNames(file2))
        /\ IsSubsequence(changes.changed, FlatNames(file2))
        /\ IsSubsequence(changes.removed, FlatNames(file1))

\* "b" is added before "a": the list is in mapping order, not sorted
TraversalOrderWitness ==
    /\ Returned
    /\ Len(changes.added) >= 2
    /\ changes.added[1] = NameB
    /\ changes.added[2] = NameA

MaxAttemptsSix == 5 + 1

\* line 74: i < 5
MaxAttempts == 5

\* calls of request() in one run
MaxCalls == 2

\* what the GET of an attempt can come to: a body, an empty body, a rejection,
\* or nothing before the kill timer fires
Outcomes == {"text", "empty", "error", "timeout"}

\* the value the awaited race yields: the body, or null from the catch handler
ValueOf(outcome) ==
    CASE outcome = "text" -> "text"
      [] outcome = "empty" -> ""
      [] OTHER -> "null"

\* !rv is false only for a non-empty body
IsTruthy(value) == value = "text"

\* lines 71-83: the call runs up to the first await: attempt 0 issues its GET
\* and arms its kill timer
CallRequest ==
    /\ pc = "idle"
    /\ calls < MaxCalls
    /\ calls' = calls + 1
    /\ loopI' = 0
    /\ rv' = "undefined"
    /\ outcomes' = <<>>
    /\ getPending' = TRUE
    /\ killTimers' = killTimers + 1
    /\ pc' = "race"
    /\ UNCHANGED <<cmpVars, reportVars, schemaVars, buildVars, abandoned, returned>>

\* the armed kill timers once the race is settled: a timer that fired is gone
TimersAfterRace(timers, outcome) ==
    IF outcome = "timeout" THEN timers - 1 ELSE timers

\* the timer left armed
clearTimeoutOmitted(timers, outcome) == timers

\* line 93: clearTimeout(killTimer) disarms the timer of the attempt unless it
\* has fired
clearTimeout(timers, outcome) ==
    IF outcome = "timeout" THEN timers ELSE timers - 1

\* lines 83-93 and 74-77: the race is settled with the given outcome; the kill
\* timer is cleared (or has fired), i++, and the loop either goes on to the
\* pause before the next attempt or ends and request() returns rv
AfterRace(outcome) ==
    /\ rv' = ValueOf(outcome)
    /\ outcomes' = Append(outcomes, outcome)
    /\ killTimers' = clearTimeout(TimersAfterRace(killTimers, outcome), outcome)
    /\ loopI' = loopI + 1
    /\ IF ~IsTruthy(rv') /\ loopI' < MaxAttempts
       THEN pc' = "pause" /\ returned' = returned
       ELSE pc' = "idle" /\ returned' = rv'
    /\ UNCHANGED <<cmpVars, reportVars, schemaVars, buildVars, calls>>

\* bentGetTEXT resolves with a body, possibly an empty one
GetResolves ==
    /\ pc = "race" /\ getPending
    /\ \E outcome \in {"text", "empty"} : AfterRace(outcome)
    /\ getPending' = FALSE
    /\ UNCHANGED abandoned

\* bentGetTEXT rejects; the catch handler yields null
GetRejects ==
    /\ pc = "race" /\ getPending
    /\ AfterRace("error")
    /\ getPending' = FALSE
    /\ UNCHANGED abandoned

\* line 81: the kill timer fires first and rejects the race with "HardTimeout";
\* the GET is not aborted and stays outstanding
HardTimeoutFires ==
    /\ pc = "race" /\ getPending /\ killTimers > 0
    /\ AfterRace("timeout")
    /\ getPending' = FALSE
    /\ abandoned' = abandoned + 1

\* line 77: the pause is over; lines 80-83: the next attempt issues its GET and
\* arms its kill timer
PauseElapses ==
    /\ pc = "pause"
    /\ getPending' = TRUE
    /\ killTimers' = killTimers + 1
    /\ pc' = "race"
    /\ UNCHANGED <<cmpVars, reportVars, schemaVars, buildVars, loopI, rv, abandoned, outcomes,
                   calls, returned>>

\* the GET of an attempt that lost the race to its kill timer settles at last
AbandonedSettles ==
    /\ pc \in {"idle", "race", "pause"}
    /\ abandoned > 0
    /\ abandoned' = abandoned - 1
    /\ UNCHANGED <<cmpVars, reportVars, schemaVars, buildVars, pc, loopI, rv, getPending,
                   killTimers, outcomes, calls, returned>>

InitRequest ==
    /\ pc = "idle"
    /\ RequestIdle
    /\ BuildIdle
    /\ CmpIdle
    /\ ReportIdle
    /\ SchemaIdle

NextRequest ==
    \/ CallRequest
    \/ GetResolves
    \/ GetRejects
    \/ HardTimeoutFires
    \/ PauseElapses
    \/ AbandonedSettles

SpecRequest == InitRequest /\ [][NextRequest]_vars

\* the GETs issued by request() that are outstanding
InFlight == abandoned + (IF getPending THEN 1 ELSE 0)

(***************************************************************************)
(* C19: network fetches are strictly serial: at every point of a run at most *)
(* one GET issued by request() is in flight, also across retries after a     *)
(* hard timeout.                                                             *)
(***************************************************************************)
SerialFetches == InFlight <= 1

\* the attempt did not yield a non-empty body
Failed(outcome) == outcome \in {"empty", "error", "timeout"}

\* the GETs issued by the running (or last) call of request()
Attempts == Len(outcomes) + (IF pc = "race" THEN 1 ELSE 0)

\* request() has returned from a call
HasReturned == pc = "idle" /\ calls > 0

(***************************************************************************)
(* C20: request(url) makes at most 5 GET attempts: it returns the response   *)
(* of the first attempt that yields a non-empty body and makes no attempt    *)
(* after that; an attempt that errors, times out or returns an empty body    *)
(* leads to the next attempt after the pause; if all 5 attempts fail it      *)
(* returns a falsy value.                                                    *)
(***************************************************************************)
RetryContract ==
    /\ [](/\ Attempts <= 5
          /\ \A k \in 1..(Len(outcomes) - 1) : Failed(outcomes[k])
          /\ pc \in {"race", "pause"} =>
                 \A k \in 1..Len(outcomes) : Failed(outcomes[k])
          /\ HasReturned =>
                 \/ /\ outcomes[Len(outcomes)] = "text"
                    /\ returned = "text"
                 \/ /\ Len(outcomes) = 5
                    /\ Failed(outcomes[5])
                    /\ returned \in {"", "null"})
    /\ [][/\ (pc = "race" /\ pc' # "race") =>
                 IF Failed(outcomes'[Len(outcomes')]) /\ Len(outcomes') < 5
                 THEN pc' = "pause"
                 ELSE pc' = "idle"
          /\ (getPending' /\ ~getPending) =>
                 \/ pc = "pause" /\ outcomes' = outcomes
                 \/ pc = "idle" /\ outcomes' = <<>>]_vars

\* three failed attempts of each kind, then a body on the fourth
RetryWitness ==
    /\ HasReturned
    /\ outcomes = <<"timeout", "error", "empty", "text">>
    /\ returned = "text"

(***************************************************************************)
(* C21: every hard-timeout timer started by request() is cleared before the  *)
(* next attempt starts and before request() returns, on success, on error    *)
(* and on timeout alike: no kill timer is pending during the pause or once   *)
(* request() has returned, and only the timer of the running attempt is      *)
(* armed during an attempt.                                                  *)
(***************************************************************************)
KillTimersCleared ==
    /\ pc \in {"idle", "pause"} => killTimers = 0
    /\ pc = "race" => killTimers = 1

\* the second call has returned after an error, a hard timeout and a success
KillTimersWitness ==
    /\ HasReturned
    /\ calls = 2
    /\ outcomes = <<"error", "timeout", "text">>
    /\ killTimers = 0

(***************************************************************************)
(* The reports on experiments without an upper limit (lines 393-405 and      *)
(* 485-497).  ext_data maps a version of the extension to its data: whether  *)
(* it is a MailExtension, whether it is an experiment, and the minimum and   *)
(* maximum Thunderbird version stated on ATN (empty when not stated).        *)
(***************************************************************************)
\* lines 34-137, in part
knownToWork91 == {"4631", "4654"}

\* lines 139-145, in part
knownToWork102 == {"986685", "4654"}

ExtensionIds == {"4631", "4654", "986685", "1"}

ExtensionVersions == {<<"1">>, <<"2">>}

V68_0 == <<"6", "8", ".", "0">>

V91_Star == <<"9", "1", ".", "*">>

\* the data of one version
VersionData ==
    [mext : BOOLEAN, experiment : BOOLEAN,
     min : {<<>>, V68_0, V91_0}, max : {<<>>, Star, V91_Star}]

NoVersionData == [mext |-> FALSE, experiment |-> FALSE, min |-> <<>>, max |-> <<>>]

\* extension records with an id, cmp_data for the channels 91 and 102, and ext_data
ExperimentExtensions ==
    {[hasCmpData |-> TRUE, cmp_data |-> c, id |-> n, ext_data |-> d] :
         c \in UNION {[present -> ExtensionVersions] : present \in SUBSET {"91", "102"}},
         n \in ExtensionIds,
         d \in [ExtensionVersions -> VersionData]}

\* getExtData(extJson, esr).data: version && ext_data ? ext_data[version] : null
getExtDataData(ext, esr) ==
    LET version == getExtDataVersion(ext, esr)
    IN  IF Truthy(version) /\ version.value \in DOMAIN ext.ext_data
        THEN [defined |-> TRUE, data |-> ext.ext_data[version.value]]
        ELSE [defined |-> FALSE, data |-> NoVersionData]

\* value || "*"
OrStar(value) == IF value = <<>> THEN Star ELSE value

\* lines 400-403 and 492-495: the row of either report, for the list of known
\* extensions, the channel whose data is read and the version the minimum is
\* compared with
ExperimentsRowData(ext, known, esr, limit) ==
    LET v == getExtDataData(ext, esr)
        atn_max == OrStar(v.data.max)
        atn_min == OrStar(v.data.min)
    IN  /\ ext.id \notin known
        /\ v.defined
        /\ v.data.mext
        /\ v.data.experiment
        /\ compareVer(limit, atn_min) > 0
        /\ atn_max = Star

\* line 492: getExtData(extJson, "102").data
Tb91Channel == "102"

\* line 400: getExtData(extJson, "102").data
Tb102Channel == "102"

InitExperiments ==
    /\ extJson \in ExperimentExtensions
    /\ include = None
    /\ pc = "call"
    /\ CmpIdle
    /\ SchemaIdle
    /\ RequestIdle
    /\ BuildIdle

\* lines 491-496: tb91-experiments-without-upper-limit
Tb91ExperimentsReport ==
    /\ pc = "call"
    /\ include' = ExperimentsRowData(extJson, knownToWork91, Tb91Channel, <<"9", "0">>)
    /\ pc' = "tb91"
    /\ UNCHANGED <<cmpVars, extJson, schemaVars, requestVars, buildVars>>

\* lines 399-404: tb102-experiments-without-upper-limit
Tb102ExperimentsReport ==
    /\ pc = "call"
    /\ include' = ExperimentsRowData(extJson, knownToWork102, Tb102Channel, <<"1", "0", "1">>)
    /\ pc' = "tb102"
    /\ UNCHANGED <<cmpVars, extJson, schemaVars, requestVars, buildVars>>

NextExperiments == Tb91ExperimentsReport \/ Tb102ExperimentsReport

SpecExperiments == InitExperiments /\ [][NextExperiments]_vars

\* the data of the version of the extension that is compatible with a channel
DataFor(ext, esr) == ext.ext_data[ext.cmp_data[esr]]

(***************************************************************************)
(* C22: the tb91-experiments-without-upper-limit report includes an          *)
(* extension exactly when it is not in knownToWork91, has a version for      *)
(* channel 91, and that version is a MailExtension experiment whose ATN      *)
(* minimum is below 90 (compareVer("90", min) > 0) and whose ATN maximum is  *)
(* unset or "*".                                                             *)
(***************************************************************************)
Tb91FromTb91Data ==
    pc = "tb91" =>
        (include <=>
            /\ extJson.id \notin knownToWork91
            /\ HasVersion(extJson, "91")
            /\ DataFor(extJson, "91").mext
            /\ DataFor(extJson, "91").experiment
            /\ compareVer(<<"9", "0">>, OrStar(DataFor(extJson, "91").min)) > 0
            /\ DataFor(extJson, "91").max \in {<<>>, Star})

(***************************************************************************)
(* main() and buildThunderbirdTemplates()                                   *)
(* (update_policy_templates.js, lines 573-681).                              *)
(***************************************************************************)
Trees == {"esr91", "central"}

V92_0a1 == <<"9", "2", ".", "0", "a", "1">>

\* a fetched schema file: the schema with file.revision and file.version
Fetched(revision, version, file) ==
    [revision |-> revision, version |-> version, file |-> file]

\* what the log of mozilla's schema can hold, newest revision first (at most 5
\* are fetched, line 294): nothing, one revision, or two revisions of which the
\* newer one adds a policy, adds none, or has no properties
MozillaLogs ==
    { <<>>,
      <<Fetched("m1", V91_0, SchemaX)>>,
      <<Fetched("m2", V92_0a1, SchemaXY), Fetched("m1", V91_0, SchemaX)>>,
      <<Fetched("m2", V92_0a1, SchemaX), Fetched("m1", V91_0, SchemaX)>>,
      <<Fetched("m2", V92_0a1, Leaf(None)), Fetched("m1", V91_0, SchemaX)>> }

\* {properties: {a: {}}}
SchemaA == WithProperties(<< <<NameA, Leaf(None)>> >>)

\* {properties: {"'a'": {}}}
SchemaQuotedA == WithProperties(<< <<(<<"'">> \o NameA \o <<"'">>), Leaf(None)>> >>)

\* comm revisions: a version (empty when version.txt came back empty) and a schema
OlderCommRevisions ==
    {Fetched("c1", v, f) : v \in {<<>>, V91_0}, f \in {SchemaA, SchemaANestedB}}

NewerCommRevisions ==
    {Fetched("c2", V92_0a1, f) : f \in {SchemaA, SchemaANestedB}}

\* the log of comm's schema, newest revision first (at most 30 are fetched)
CommLogs ==
    {<<>>, <<Fetched("c1", V91_0, SchemaQuotedA)>>}
        \cup {<<o>> : o \in OlderCommRevisions}
        \cup {<<n, o>> : n \in NewerCommRevisions, o \in OlderCommRevisions}

\* lines 291-321: the data downloadPolicySchemaFiles returns for a tree
TreeData == [mozilla : MozillaLogs, comm : CommLogs]

\* one entry of revisions.json
Settings == [tree : Trees, mozillaReferencePolicyRevision : {"m0", "m1"}]

\* revisions.json: the trees to build, in order
RevisionDataFiles ==
    {<<s>> : s \in Settings} \cup {<<s, t>> : s \in Settings, t \in Settings}

\* lines 579: revisions.find(r => r.revision == id), as an index; 0 when not found
RECURSIVE FindRevisionFrom(_, _, _)
FindRevisionFrom(revisions, id, k) ==
    IF k > Len(revisions) THEN 0
    ELSE IF revisions[k].revision = id THEN k
    ELSE FindRevisionFrom(revisions, id, k + 1)

\* an unknown revision taken for the newest one
FindRevisionOrNewest(revisions, id) ==
    IF FindRevisionFrom(revisions, id, 1) = 0 /\ revisions # <<>>
    THEN 1
    ELSE FindRevisionFrom(revisions, id, 1)

FindRevision(revisions, id) == FindRevisionFrom(revisions, id, 1)

\* the oldest fetched revision
OldestRevision(revisions) == revisions[Len(revisions)]

\* lines 586-587: data.mozilla.revisions[0]
NewestRevision(revisions) == revisions[1]

\* String.trim, for blanks
RECURSIVE TrimStart(_)
TrimStart(s) == IF s # <<>> /\ Head(s) = " " THEN TrimStart(Tail(s)) ELSE s

RECURSIVE TrimEnd(_)
TrimEnd(s) ==
    IF s # <<>> /\ s[Len(s)] = " " THEN TrimEnd(SubSeq(s, 1, Len(s) - 1)) ELSE s

\* line 627: raw_policy.trim().replace(/'/g, "")
NormalizePolicy(raw) == SelectSeq(TrimEnd(TrimStart(raw)), LAMBDA c : c # "'")

\* a table with an (empty) entry for the policy
WithPolicy(table, policy) ==
    IF policy \in DOMAIN table
    THEN table
    ELSE [p \in DOMAIN table \cup {policy} |->
              IF p = policy THEN <<>> ELSE table[p]]

\* the version written whether or not one is recorded
RecordVersionAlways(table, policy, tree, version) ==
    LET t == WithPolicy(table, policy)
    IN  [t EXCEPT ![policy] =
             [e \in DOMAIN t[policy] \cup {tree} |->
                  IF e = tree THEN version ELSE t[policy][e]]]

\* lines 628-633: the entry of the policy is created when missing, and the
\* version is written when the entry has none (or an empty one) for the tree
RecordVersion(table, policy, tree, version) ==
    LET t == WithPolicy(table, policy)
    IN  IF tree \in DOMAIN t[policy] /\ t[policy][tree] # <<>>
        THEN t
        ELSE [t EXCEPT ![policy] =
                  [e \in DOMAIN t[policy] \cup {tree} |->
                       IF e = tree THEN version ELSE t[policy][e]]]

\* lines 626-634: the loop over the policies of one revision, from policy k on
RECURSIVE RecordPolicies(_, _, _, _, _)
RecordPolicies(table, policies, k, tree, version) ==
    IF k > Len(policies)
    THEN table
    ELSE RecordPolicies(RecordVersion(table, NormalizePolicy(policies[k]), tree, version),
                        policies, k + 1, tree, version)

\* lines 625-634: one comm revision is entered into the table
RecordRevision(table, tree, revision) ==
    RecordPolicies(table, extractFlatPolicyNamesFromPolicySchema(revision.file), 1,
                   tree, revision.version)

\* line 378: the keys of the table that are the policy or start with policy_
RelatedEntries(table, policy) ==
    {k \in DOMAIN table : k = policy \/ IsPrefix(policy \o <<"_">>, k)}

\* line 386: gCompatibilityData[entry][tree].replace(...) throws a TypeError
\* when an entry has no version for the tree
CompatibilityTableThrows(table, policy, tree) ==
    \E entry \in RelatedEntries(table, policy) : tree \notin DOMAIN table[entry]

\* policies the README of mozilla may have details for
TemplatePolicies == {NameA, NameAB}

\* the entry of revisions.json being built and the data fetched for its tree
CurrentSettings == revisionData[treeIndex]

CurrentData == hg[CurrentSettings.tree]

\* main is between two builds and has a tree left
BuildPending == pc = "main" /\ treeIndex <= Len(revisionData)

\* the index of the acknowledged revision among the fetched ones; 0 when unknown
ReferenceIndex ==
    FindRevision(CurrentData.mozilla, CurrentSettings.mozillaReferencePolicyRevision)

InitBuild ==
    /\ revisionData \in RevisionDataFiles
    /\ hg \in [Trees -> TreeData]
    /\ treeIndex = 1
    /\ loopR = 0
    /\ readmeBuilt = {} /\ errorsReported = {} /\ warned = {}
    /\ pc = "main"
    /\ file1 = NullNode /\ file2 = NullNode
    /\ gCompatibilityData = EmptyCompatibilityData
    /\ flat = <<>> /\ flatAgain = <<>>
    /\ changes = Undefined
    /\ CmpIdle
    /\ ReportIdle
    /\ RequestIdle

\* lines 573-584 and 675: the acknowledged revision is not among the fetched
\* ones; the build reports it and returns, and main goes on with the next tree
UnknownRevision ==
    /\ BuildPending
    /\ ReferenceIndex = 0
    /\ errorsReported' = errorsReported \cup {treeIndex}
    /\ treeIndex' = treeIndex + 1
    /\ UNCHANGED <<cmpVars, reportVars, schemaVars, requestVars, pc, revisionData, hg,
                   loopR, readmeBuilt, warned>>

\* lines 573-603 and 624: the acknowledged revision is among the fetched ones;
\* it is advanced to the newest one when it is another one, the changes are
\* computed and the warning is printed when there is a result; the loop over
\* the comm revisions starts with the oldest
KnownRevision ==
    /\ BuildPending
    /\ ReferenceIndex # 0
    /\ LET mozillaReferencePolicyFile == CurrentData.mozilla[ReferenceIndex]
           newest == NewestRevision(CurrentData.mozilla)
       IN  IF mozillaReferencePolicyFile.revision # newest.revision
           THEN /\ revisionData' =
                       [revisionData EXCEPT
                            ![treeIndex].mozillaReferencePolicyRevision = newest.revision]
                /\ changes' =
                       checkPolicySchemaChanges(mozillaReferencePolicyFile.file, newest.file)
                /\ warned' = IF changes'.defined THEN warned \cup {treeIndex} ELSE warned
           ELSE UNCHANGED <<revisionData, changes, warned>>
    /\ loopR' = Len(CurrentData.comm)
    /\ pc' = "extract"
    /\ UNCHANGED <<cmpVars, reportVars, requestVars, file1, file2, gCompatibilityData,
                   flat, flatAgain, hg, treeIndex, readmeBuilt, errorsReported>>

\* lines 624-635: one pass of the loop over the comm revisions
ExtractRevision ==
    /\ pc = "extract"
    /\ loopR > 0
    /\ gCompatibilityData' =
           RecordRevision(gCompatibilityData, CurrentSettings.tree, CurrentData.comm[loopR])
    /\ loopR' = loopR - 1
    /\ UNCHANGED <<cmpVars, reportVars, requestVars, file1, file2, flat, flatAgain,
                   changes, pc, revisionData, hg, treeIndex, readmeBuilt,
                   errorsReported, warned>>

\* lines 637-643 and 675: the README of mozilla is parsed and the README and
\* ADMX files are built for all keys of the table; buildCompatibilityTable is
\* called for the keys the template has details for, and a TypeError in it
\* ends the run
BuildReadme ==
    /\ pc = "extract"
    /\ loopR = 0
    /\ \E documented \in SUBSET TemplatePolicies :
           IF \E policy \in documented \cap DOMAIN gCompatibilityData :
                  CompatibilityTableThrows(gCompatibilityData, policy, CurrentSettings.tree)
           THEN pc' = "crashed" /\ UNCHANGED <<treeIndex, readmeBuilt>>
           ELSE /\ readmeBuilt' = readmeBuilt \cup {treeIndex}
                /\ treeIndex' = treeIndex + 1
                /\ pc' = "main"
    /\ UNCHANGED <<cmpVars, reportVars, schemaVars, requestVars, revisionData, hg, loopR,
                   errorsReported, warned>>

\* lines 678-680: all trees are done; the config files are written
WriteConfigFiles ==
    /\ pc = "main"
    /\ treeIndex > Len(revisionData)
    /\ pc' = "end"
    /\ UNCHANGED <<cmpVars, reportVars, schemaVars, requestVars, buildVars>>

NextBuild ==
    \/ UnknownRevision
    \/ KnownRevision
    \/ ExtractRevision
    \/ BuildReadme
    \/ WriteConfigFiles

SpecBuild == InitBuild /\ [][NextBuild]_vars

\* the policies of a fetched revision: its flat names, trimmed and unquoted
PoliciesOf(revision) ==
    {NormalizePolicy(n) : n \in Range(FlatNames(revision.file))}

\* the builds whose loop over the comm revisions has run to its end
Extracted ==
    {k \in 1..Len(revisionData) :
        /\ k \notin errorsReported
        /\ \/ k < treeIndex
           \/ k = treeIndex /\ pc \in {"extract", "crashed"} /\ loopR = 0}

\* the position of the oldest of the candidate revisions of a log (newest first)
OldestIn(revisions, candidates) ==
    CHOOSE r \in candidates : \A q \in candidates : q <= r

\* the revisions of a log that contain the policy
Containing(revisions, p) ==
    {r \in 1..Len(revisions) : p \in PoliciesOf(revisions[r])}

\* the revisions of a log that contain the policy and have a version
ContainingVersioned(revisions, p) ==
    {r \in Containing(revisions, p) : revisions[r].version # <<>>}

\* the table has a version (possibly an empty one) for the policy and the tree
Recorded(table, p, t) == p \in DOMAIN table /\ t \in DOMAIN table[p]

(***************************************************************************)
(* C23 as stated: gCompatibilityData[policy][tree] is write-once within a    *)
(* run: processing a tree sets it to the version of the oldest fetched comm  *)
(* revision of that tree whose flattened names contain the policy, and no    *)
(* later revision of that tree and no later tree build ever overwrites or    *)
(* removes an entry already recorded.                                        *)
(***************************************************************************)
WriteOnceOldest ==
    /\ [](\A k \in Extracted :
              LET t == revisionData[k].tree
                  revisions == hg[t].comm
              IN  \A r \in 1..Len(revisions) : \A p \in PoliciesOf(revisions[r]) :
                      /\ Recorded(gCompatibilityData, p, t)
                      /\ gCompatibilityData[p][t]
                             = revisions[OldestIn(revisions, Containing(revisions, p))].version)
    /\ [][\A p \in DOMAIN gCompatibilityData : \A t \in DOMAIN gCompatibilityData[p] :
              /\ Recorded(gCompatibilityData', p, t)
              /\ gCompatibilityData'[p][t] = gCompatibilityData[p][t]]_vars

(***************************************************************************)
(* C23, amended: an entry is write-once as soon as it holds a non-empty      *)
(* version.  Processing a tree sets the entry to the version of the oldest   *)
(* fetched comm revision that contains the policy and has a non-empty        *)
(* version (to the empty version when there is none); no step overwrites a   *)
(* non-empty version or removes an entry.                                    *)
(***************************************************************************)
WriteOnceNonEmpty ==
    /\ [](\A k \in Extracted :
              LET t == revisionData[k].tree
                  revisions == hg[t].comm
              IN  \A r \in 1..Len(revisions) : \A p \in PoliciesOf(revisions[r]) :
                      /\ Recorded(gCompatibilityData, p, t)
                      /\ gCompatibilityData[p][t]
                             = IF ContainingVersioned(revisions, p) = {}
                               THEN <<>>
                               ELSE revisions[OldestIn(revisions,
                                        ContainingVersioned(revisions, p))].version)
    /\ [][\A p \in DOMAIN gCompatibilityData : \A t \in DOMAIN gCompatibilityData[p] :
              /\ Recorded(gCompatibilityData', p, t)
              /\ gCompatibilityData[p][t] # <<>> =>
                     gCompatibilityData'[p][t] = gCompatibilityData[p][t]]_vars

\* the oldest revision has an empty version: the policy gets the newer version
WriteOnceWitness ==
    /\ pc = "extract" /\ loopR = 0
    /\ hg[CurrentSettings.tree].comm
           = <<Fetched("c2", V92_0a1, SchemaANestedB), Fetched("c1", <<>>, SchemaA)>>
    /\ gCompatibilityData[NameA][CurrentSettings.tree] = V92_0a1
    /\ gCompatibilityData[NameAB][CurrentSettings.tree] = V92_0a1

\* buildReadme is about to be called for the tree being built
ReadmeDue == pc = "extract" /\ loopR = 0

(***************************************************************************)
(* C24: after any sequence of tree builds, whenever the README for tree T is *)
(* built, gCompatibilityData[p][T] is defined for every key p of             *)
(* gCompatibilityData, so buildCompatibilityTable never reads an undefined   *)
(* version.                                                                  *)
(***************************************************************************)
ReadmeVersionsDefined ==
    /\ ReadmeDue =>
           \A p \in DOMAIN gCompatibilityData :
               CurrentSettings.tree \in DOMAIN gCompatibilityData[p]
    /\ pc # "crashed"

\* the acknowledged revision of the tree to build is among the fetched ones
AcknowledgedFetched ==
    \E r \in 1..Len(hg[CurrentSettings.tree].mozilla) :
        hg[CurrentSettings.tree].mozilla[r].revision
            = CurrentSettings.mozillaReferencePolicyRevision

(***************************************************************************)
(* C25: if the acknowledged mozillaReferencePolicyRevision of a tree is not  *)
(* among the fetched mozilla revisions, buildThunderbirdTemplates reports an *)
(* error and returns without changing the settings or gCompatibilityData and *)
(* without building the README or ADMX files for that tree; main continues   *)
(* with the remaining trees.                                                 *)
(***************************************************************************)
UnknownRevisionSkipsTree ==
    [][(BuildPending /\ ~AcknowledgedFetched) =>
           /\ treeIndex \in errorsReported'
           /\ revisionData' = revisionData
           /\ gCompatibilityData' = gCompatibilityData
           /\ readmeBuilt' = readmeBuilt
           /\ pc' = "main"
           /\ treeIndex' = treeIndex + 1]_vars

\* the first tree was skipped with an error, the second one was built
UnknownRevisionWitness ==
    /\ 1 \in errorsReported
    /\ 2 \in readmeBuilt
    /\ revisionData[1].mozillaReferencePolicyRevision = "m0"
    /\ hg[revisionData[1].tree].mozilla # <<>>

(***************************************************************************)
(* C26: when the acknowledged reference revision is among the fetched        *)
(* mozilla revisions, after buildThunderbirdTemplates the setting equals the *)
(* newest fetched revision, whether or not checkPolicySchemaChanges returns  *)
(* a result or reports any name, and the change warning is printed only when *)
(* checkPolicySchemaChanges returns a result.                                *)
(***************************************************************************)
ReferenceAdvanced ==
    /\ [](\A k \in 1..Len(revisionData) :
              (/\ k \notin errorsReported
               /\ \/ k < treeIndex
                  \/ k = treeIndex /\ pc \in {"extract", "crashed"}) =>
                  revisionData[k].mozillaReferencePolicyRevision
                      = hg[revisionData[k].tree].mozilla[1].revision)
    /\ [][(BuildPending /\ AcknowledgedFetched /\ treeIndex \in warned') =>
              LET revisions == hg[CurrentSettings.tree].mozilla
              IN  \E r \in 2..Len(revisions) :
                      /\ revisions[r].revision = CurrentSettings.mozillaReferencePolicyRevision
                      /\ revisions[r].file.kind = "object" /\ revisions[r].file.hasProperties
                      /\ revisions[1].file.kind = "object" /\ revisions[1].file.hasProperties]_vars

\* advanced to the newest revision, which has no properties: no result, no warning
ReferenceAdvancedWitness ==
    /\ pc = "main"
    /\ treeIndex = 2
    /\ 1 \in readmeBuilt
    /\ revisionData[1].mozillaReferencePolicyRevision = "m2"
    /\ hg[revisionData[1].tree].mozilla[1].file = Leaf(None)
    /\ 1 \notin warned

====
